---------------------------- MODULE Spec2Model ----------------------------
(***************************************************************************)
(* A model of the dandelion random number generator (src/src/lib.rs).      *)
(*                                                                         *)
(* Machine integers are little-endian byte sequences of the type's width   *)
(* (u32: 4 bytes, u64: 8 bytes, u128: 16 bytes), which is what             *)
(* to_le_bytes() yields.  All arithmetic is carried out on these           *)
(* sequences, so every operation has exactly the width it has in the       *)
(* source.  Floating point values are their IEEE-754 bit patterns.         *)
(***************************************************************************)
EXTENDS Integers, Sequences, FiniteSets, TLC

VARIABLES
  state,  \* Rng::state of the generator under observation (a u128)
  child,  \* the state of the generator last split off it, or <<>>
  out,    \* what the last operation was given and what it returned
  pc      \* the number of operations performed since construction

vars == <<state, child, out, pc>>

---------------------------------------------------------------------------
(* Fixed-width unsigned integers as little-endian byte sequences.          *)

\* The sequence with the elements f[1], ..., f[Len(f)]
Tup(f) == f \o <<>>

Zeros(n) == Tup([i \in 1..n |-> 0])

\* The value k < 2^31 as an n-byte integer.
RECURSIVE FromNat(_, _)
FromNat(k, n) == IF n = 0 THEN <<>> ELSE <<k % 256>> \o FromNat(k \div 256, n - 1)

\* A u64 written as four 16-bit groups, most significant first.
W64(a, b, c, d) ==
  << d % 256, d \div 256, c % 256, c \div 256,
     b % 256, b \div 256, a % 256, a \div 256 >>

\* A u32 written as two 16-bit groups, most significant first.
W32(a, b) == << b % 256, b \div 256, a % 256, a \div 256 >>

\* `as uN` to a narrower type, and `as uN` to a wider type.
Trunc(a, n) == SubSeq(a, 1, n)
Ext(a, n) == a \o Zeros(n - Len(a))

IsZero(a) == \A i \in 1..Len(a) : a[i] = 0

\* Bitwise operators on four bits, tabulated
NibBit(a, k) == (a \div (2 ^ k)) % 2
NibXor(a, b, k) == ((NibBit(a, k) + NibBit(b, k)) % 2) * (2 ^ k)
NibOr(a, b, k) == ((NibBit(a, k) + NibBit(b, k) + 1) \div 2) * (2 ^ k)
NibAnd(a, b, k) == ((NibBit(a, k) + NibBit(b, k)) \div 2) * (2 ^ k)
XorNib ==
  [a \in 0..15 |-> [b \in 0..15 |->
     NibXor(a, b, 0) + NibXor(a, b, 1) + NibXor(a, b, 2) + NibXor(a, b, 3)]]
OrNib ==
  [a \in 0..15 |-> [b \in 0..15 |->
     NibOr(a, b, 0) + NibOr(a, b, 1) + NibOr(a, b, 2) + NibOr(a, b, 3)]]
AndNib ==
  [a \in 0..15 |-> [b \in 0..15 |->
     NibAnd(a, b, 0) + NibAnd(a, b, 1) + NibAnd(a, b, 2) + NibAnd(a, b, 3)]]
ByteOp(t, a, b) == 16 * t[a \div 16][b \div 16] + t[a % 16][b % 16]

\* a ^ b, a | b, a & b
Xor(a, b) == Tup([i \in 1..Len(a) |-> ByteOp(XorNib, a[i], b[i])])
Or(a, b) == Tup([i \in 1..Len(a) |-> ByteOp(OrNib, a[i], b[i])])
And(a, b) == Tup([i \in 1..Len(a) |-> ByteOp(AndNib, a[i], b[i])])

\* Byte i (from 0) of a, zero outside the integer.
At(a, i) == IF i >= 0 /\ i < Len(a) THEN a[i + 1] ELSE 0

\* a >> k and a << k (bits shifted out are lost), 0 <= k < 8 * Len(a)
Shr(a, k) ==
  LET q == k \div 8
      r == k % 8
  IN  Tup([i \in 1..Len(a) |->
             (At(a, i - 1 + q) \div (2 ^ r))
               + (At(a, i + q) % (2 ^ r)) * (2 ^ (8 - r))])
Shl(a, k) ==
  LET q == k \div 8
      r == k % 8
  IN  Tup([i \in 1..Len(a) |->
             ((At(a, i - 1 - q) * (2 ^ r)) % 256)
               + (At(a, i - 2 - q) \div (2 ^ (8 - r)))])

\* a.rotate_right(k), 0 < k < 8 * Len(a)
RotateRight(a, k) == Or(Shr(a, k), Shl(a, 8 * Len(a) - k))

\* a.swap_bytes()
SwapBytes(a) == Tup([i \in 1..Len(a) |-> a[Len(a) + 1 - i]])

\* The sum a + b of two integers of one width, with the carry as an extra
\* top byte; the wrapping sum; and whether the checked sum overflows.
RECURSIVE AddFrom(_, _, _, _)
AddFrom(a, b, i, c) ==
  IF i > Len(a) THEN <<c>>
  ELSE LET s == a[i] + b[i] + c
       IN  <<s % 256>> \o AddFrom(a, b, i + 1, s \div 256)
Add(a, b) == AddFrom(a, b, 1, 0)
WrappingAdd(a, b) == Trunc(Add(a, b), Len(a))
AddOverflows(a, b) == Add(a, b)[Len(a) + 1] # 0

\* a.wrapping_sub(b)
RECURSIVE SubFrom(_, _, _, _)
SubFrom(a, b, i, c) ==
  IF i > Len(a) THEN <<>>
  ELSE LET s == a[i] - b[i] - c
       IN  <<s % 256>> \o SubFrom(a, b, i + 1, IF s < 0 THEN 1 ELSE 0)
WrappingSub(a, b) == SubFrom(a, b, 1, 0)

\* The number of bytes of a up to its highest non-zero byte
RECURSIVE SigLen(_, _)
SigLen(a, n) == IF n = 0 \/ a[n] # 0 THEN n ELSE SigLen(a, n - 1)

\* The product a * b, as its low n bytes.  Column k sums a[i] * b[k - i]
\* over the bytes i of a and k - i of b below their highest non-zero bytes.
Min(i, j) == IF i < j THEN i ELSE j
Max(i, j) == IF i > j THEN i ELSE j
RECURSIVE ColSum(_, _, _, _, _)
ColSum(a, b, k, i, last) ==
  IF i > last THEN 0
  ELSE a[i + 1] * b[k - i + 1] + ColSum(a, b, k, i + 1, last)
RECURSIVE MulFrom(_, _, _, _, _, _, _)
MulFrom(a, b, la, lb, n, k, c) ==
  IF k = n THEN <<>>
  ELSE LET s == c + ColSum(a, b, k, Max(0, k - lb + 1), Min(k, la - 1))
       IN  <<s % 256>> \o MulFrom(a, b, la, lb, n, k + 1, s \div 256)
MulLow(a, b, n) == MulFrom(a, b, SigLen(a, Len(a)), SigLen(b, Len(b)), n, 0, 0)

\* The full product a * b, of Len(a) + Len(b) bytes; a.wrapping_mul(b);
\* and whether the checked product of two integers of one width overflows.
Mul(a, b) == MulLow(a, b, Len(a) + Len(b))
WrappingMul(a, b) == MulLow(a, b, Len(a))
MulOverflows(a, b) == ~IsZero(SubSeq(Mul(a, b), Len(a) + 1, 2 * Len(a)))

\* a < b and a <= b, for integers of one width
RECURSIVE LtFrom(_, _, _)
LtFrom(a, b, i) ==
  IF i = 0 THEN FALSE
  ELSE IF a[i] # b[i] THEN a[i] < b[i]
  ELSE LtFrom(a, b, i - 1)
Lt(a, b) == LtFrom(a, b, Len(a))
Le(a, b) == ~Lt(b, a)

\* Bit k (from 0) of a
Bit(a, k) == (At(a, k \div 8) \div (2 ^ (k % 8))) % 2

\* a.trailing_zeros()
RECURSIVE TzFrom(_, _)
TzFrom(a, k) ==
  IF k = 8 * Len(a) THEN k
  ELSE IF Bit(a, k) = 1 THEN k
  ELSE TzFrom(a, k + 1)
TrailingZeros(a) == TzFrom(a, 0)

One(n) == FromNat(1, n)
MaxOf(n) == Tup([i \in 1..n |-> 255])

---------------------------------------------------------------------------
(* The generator.                                                          *)

\* get_chunk's assertion, and the chunk it yields
get_chunk_ok(slice, offset, N) ==
  offset <= Len(slice) /\ N <= Len(slice) - offset
get_chunk(slice, offset, N) == SubSeq(slice, offset + 1, offset + N)
front_chunk(slice, N) == get_chunk(slice, 0, N)

\* A u128 from its high and low u64 halves: lo as u128 ^ (hi as u128) << 64
Pack(lo, hi) == Xor(Ext(lo, 16), Shl(Ext(hi, 16), 64))

\* hash: the multiplier M
M ==
  Pack(W64(\hd1be, \h3f81, \h0152, \hcb57), W64(\h93c4, \h67e3, \h7db0, \hc7a4))

\* Three rounds of a multiplication by M followed by a byte reversal
hash_three_rounds(x) ==
  SwapBytes(WrappingMul(SwapBytes(WrappingMul(SwapBytes(WrappingMul(x, M)), M)), M))

hash(x) ==
  LET x1 == WrappingMul(x, M)
      x2 == SwapBytes(x1)
      x3 == WrappingMul(x2, M)
      x4 == SwapBytes(x3)
      x5 == WrappingMul(x4, M)
  IN  x5

\* NonZeroU128::new(s).unwrap() panics on zero
unwrap_panics(s) == IsZero(s)

\* Rng::new without its marker bit
new_packed_unmarked(seed) ==
  LET x == get_chunk(seed, 0, 8)
      y == get_chunk(seed, 7, 8)
  IN  Or(Ext(x, 16), Shl(Ext(Shr(y, 8), 16), 64))

\* Rng::new(seed), seed a [u8; 15]: the value that is hashed, and the state
new_packed(seed) ==
  LET x == get_chunk(seed, 0, 8)
      y == get_chunk(seed, 7, 8)
      s == Or(Ext(x, 16), Shl(Ext(Shr(y, 8), 16), 64))
  IN  Or(s, Shl(One(16), 120))
new(seed) == hash(new_packed(seed))

\* Rng::from_u64(seed)
from_u64_packed(seed) == Or(Ext(seed, 16), Shl(One(16), 64))
from_u64(seed) == hash(from_u64_packed(seed))

\* Rng::from_state(state)
from_state(s) == s

\* Rng::from_operating_system(), buf the 16 bytes getrandom::fill wrote;
\* SeedableRng::from_seed(seed) is the same computation on its [u8; 16]
from_operating_system(buf) == Or(buf, One(16))
from_seed(seed) == from_state(Or(seed, One(16)))

\* (w as u64) ^ ((w >> 64) as u64), w a u128
XorHalves(w) == Xor(Trunc(w, 8), Trunc(Shr(w, 64), 8))

\* Rng::u64 with v computed from y alone
u64_v_from_y(s) ==
  LET x == Trunc(s, 8)
      y == Trunc(Shr(s, 64), 8)
      u == Xor(y, Shr(y, 19))
      v == Xor(y, RotateRight(y, 7))
      w == Mul(x, x)
      z == WrappingAdd(y, XorHalves(w))
  IN  [val |-> z, state |-> Pack(u, v)]

\* Rng::u64 with y shifted by 18 rather than 19
u64_shift18(s) ==
  LET x == Trunc(s, 8)
      y == Trunc(Shr(s, 64), 8)
      u == Xor(y, Shr(y, 18))
      v == Xor(x, RotateRight(y, 7))
      w == Mul(x, x)
      z == WrappingAdd(y, XorHalves(w))
  IN  [val |-> z, state |-> Pack(u, v)]

\* Rng::u64: the word returned (val) and the state it leaves.  The operands
\* of x as u128 * x as u128 are below 2^64, so w is the full product.
u64(s) ==
  LET x == Trunc(s, 8)
      y == Trunc(Shr(s, 64), 8)
      u == Xor(y, Shr(y, 19))
      v == Xor(x, RotateRight(y, 7))
      w == Mul(x, x)
      z == WrappingAdd(y, XorHalves(w))
  IN  [val |-> z, state |-> Pack(u, v)]

\* `let x = self.u64(); let y = self.u64();`: after the call that gave r1,
\* a second call, which gives r2; x and y are the two words and state is the
\* state left
u64_both(r1, r2) == [x |-> r1.val, y |-> r2.val, state |-> r2.state]
u64_after(r1) == u64_both(r1, u64(r1.state))
u64_twice(s) == u64_after(u64(s))

\* Rng::split without the `| 1`, and with y taken where x was
split_not_odd(s) ==
  LET d == u64_twice(s)
  IN  [child |-> Pack(d.x, d.y), x |-> d.x, y |-> d.y, state |-> d.state,
       panic |-> unwrap_panics(Pack(d.x, d.y))]
split_one_draw(s) ==
  LET d == u64(s)
  IN  [child |-> Or(Pack(d.val, d.val), One(16)), x |-> d.val, y |-> d.val,
       state |-> d.state, panic |-> unwrap_panics(Or(Pack(d.val, d.val), One(16)))]

\* Rng::split: the child's state, the words x and y drawn (d), and the state
\* the parent is left in
split_of(d) ==
  [child |-> Or(Pack(d.x, d.y), One(16)), x |-> d.x, y |-> d.y, state |-> d.state,
   panic |-> unwrap_panics(Or(Pack(d.x, d.y), One(16)))]
split(s) == split_of(u64_twice(s))

\* SeedableRng::from_rng(rng), rng a generator of this kind (next_u64 is u64)
from_rng_of(d) ==
  [child |-> from_state(Or(Pack(d.x, d.y), One(16))), x |-> d.x, y |-> d.y,
   state |-> d.state, panic |-> unwrap_panics(Or(Pack(d.x, d.y), One(16)))]
from_rng(s) == from_rng_of(u64_twice(s))

---------------------------------------------------------------------------
(* Signed integers and floating point values.                              *)

\* A signed integer is its sign and magnitude; `as uN` encodes it in two's
\* complement and `as iN` decodes it.
as_unsigned(v) == IF v.neg THEN WrappingSub(Zeros(Len(v.mag)), v.mag) ELSE v.mag
as_signed(a) ==
  IF Bit(a, 8 * Len(a) - 1) = 1
  THEN [neg |-> TRUE, mag |-> WrappingSub(Zeros(Len(a)), a)]
  ELSE [neg |-> FALSE, mag |-> a]

\* The value of a short integer as a number (below 2^31).
RECURSIVE ToNat(_)
ToNat(a) == IF a = <<>> THEN 0 ELSE Head(a) + 256 * ToNat(Tail(a))

\* A binary floating point value is its bit pattern, an integer of n bytes
\* with mb mantissa bits (f64: n = 8, mb = 52; f32: n = 4, mb = 23).
FSign(a) == Bit(a, 8 * Len(a) - 1)
FMag(a) == Tup([i \in 1..Len(a) |-> IF i = Len(a) THEN a[i] % 128 ELSE a[i]])
FExp(a, mb) == ToNat(Trunc(Shr(FMag(a), mb), 2))
FFrac(a, mb) == WrappingSub(FMag(a), Shl(FromNat(FExp(a, mb), Len(a)), mb))
FInf(n, mb) == Shl(FromNat(2 ^ (8 * n - 1 - mb) - 1, n), mb)
FIsNaN(a, mb) == Lt(FInf(Len(a), mb), FMag(a))
FIsFinite(a, mb) == Lt(FMag(a), FInf(Len(a), mb))

\* a < b on floating point values: false when either is a NaN, -0 = +0
FLt(a, b, mb) ==
  /\ ~FIsNaN(a, mb)
  /\ ~FIsNaN(b, mb)
  /\ ~(IsZero(FMag(a)) /\ IsZero(FMag(b)))
  /\ CASE FSign(a) = 0 /\ FSign(b) = 0 -> Lt(FMag(a), FMag(b))
       [] FSign(a) = 1 /\ FSign(b) = 1 -> Lt(FMag(b), FMag(a))
       [] FSign(a) = 1 /\ FSign(b) = 0 -> TRUE
       [] OTHER -> FALSE
FLe(a, b, mb) ==
  /\ ~FIsNaN(a, mb)
  /\ ~FIsNaN(b, mb)
  /\ (FLt(a, b, mb) \/ a = b \/ (IsZero(FMag(a)) /\ IsZero(FMag(b))))

\* The position of the highest set bit of a non-zero integer
RECURSIVE HighBitFrom(_, _)
HighBitFrom(a, k) == IF Bit(a, k) = 1 THEN k ELSE HighBitFrom(a, k - 1)
HighBit(a) == HighBitFrom(a, 8 * Len(a) - 1)

\* `v as fN` for a signed 64-bit v: the nearest value with mb + 1
\* significant bits, ties to even, as the bit pattern of n bytes.
int_to_float(v, n, mb) ==
  LET bias == 2 ^ (8 * n - 2 - mb) - 1
      m == v.mag
      h == HighBit(m)
      sh == h - mb
      q == Shr(m, sh)
      rest == Shl(m, 8 * Len(m) - sh)
      half == Shl(One(Len(m)), 8 * Len(m) - 1)
      up == Lt(half, rest) \/ (rest = half /\ Bit(q, 0) = 1)
      r == IF up THEN WrappingAdd(q, One(Len(m))) ELSE q
      sig == IF sh <= 0 THEN Shl(m, mb - h) ELSE r
      carry == Bit(sig, mb + 1) = 1
      e == IF carry THEN h + 1 ELSE h
      frac == IF carry THEN Zeros(n)
              ELSE Trunc(WrappingSub(sig, Shl(One(Len(m)), mb)), n)
      mag == IF IsZero(m) THEN Zeros(n)
             ELSE WrappingAdd(Shl(FromNat(e + bias, n), mb), frac)
  IN  IF v.neg THEN Or(mag, Shl(One(n), 8 * n - 1)) ELSE mag

\* c * a where c is a power of two: the exponents add.  Defined where the
\* product neither overflows nor underflows.
float_mul_pow2(c, a, mb) ==
  LET n == Len(a)
      bias == 2 ^ (8 * n - 2 - mb) - 1
      sign == Xor(Shl(Shr(c, 8 * n - 1), 8 * n - 1), Shl(Shr(a, 8 * n - 1), 8 * n - 1))
      e == FExp(c, mb) + FExp(a, mb) - bias
  IN  IF IsZero(FMag(a)) THEN sign
      ELSE Or(sign, WrappingAdd(Shl(FromNat(e, n), mb), FFrac(a, mb)))

---------------------------------------------------------------------------
(* The samplers.                                                           *)

\* Rng::i64, Rng::i32, Rng::u32, Rng::bool: u64() with its word converted
i64(s) == [u64(s) EXCEPT !.val = as_signed(@)]
i32(s) == [u64(s) EXCEPT !.val = as_signed(Trunc(@, 4))]
u32(s) == [u64(s) EXCEPT !.val = Trunc(@, 4)]
bool(s) == [i64(s) EXCEPT !.val = @.neg]

\* bernoulli's decision with the exponent taken from 1023
bernoulli_e1023(x, p) ==
  LET e == FromNat(1023 - TrailingZeros(x), 8)
      t == WrappingAdd(Shl(e, 52), Shr(x, 12))
  IN  [val |-> FLt(t, p, 52), t |-> t,
       overflow |-> AddOverflows(Shl(e, 52), Shr(x, 12))]

\* Rng::bernoulli, from the word x drawn on: t is the value compared with p,
\* and overflow is whether (e << 52) + (x >> 12) overflows
bernoulli_of_word(x, p) ==
  LET e == FromNat(1022 - TrailingZeros(x), 8)
      t == WrappingAdd(Shl(e, 52), Shr(x, 12))
  IN  [val |-> FLt(t, p, 52), t |-> t,
       overflow |-> AddOverflows(Shl(e, 52), Shr(x, 12))]

\* Rng::bernoulli: r is what u64() gave
bernoulli_of(r, p) == [x |-> r.val, state |-> r.state] @@ bernoulli_of_word(r.val, p)
bernoulli(s, p) == bernoulli_of(u64(s), p)

\* x * n + x on u128: the wrapping value, and whether the multiplication or
\* the addition overflows
mul_add_of(xn, x) ==
  [val |-> WrappingAdd(Trunc(xn, 16), x),
   overflow |-> ~IsZero(SubSeq(xn, 17, 32)) \/ AddOverflows(Trunc(xn, 16), x)]
mul_add(x, n) == mul_add_of(Mul(x, n), x)

\* The body of bounded_u64 with u left unshifted, and with z shifted by 63
bounded_u_unshifted(x, y, n) ==
  LET xnx == mul_add(x, n)
      v == mul_add(y, n)
      u == xnx.val
  IN  [val |-> Shr(WrappingAdd(u, v.val), 64), v |-> v.val, uv |-> WrappingAdd(u, v.val),
       overflow |-> xnx.overflow \/ v.overflow \/ AddOverflows(u, v.val)]
bounded_z_shift63(x, y, n) ==
  LET xnx == mul_add(x, n)
      v == mul_add(y, n)
      u == Shr(xnx.val, 64)
  IN  [val |-> Shr(WrappingAdd(u, v.val), 63), v |-> v.val, uv |-> WrappingAdd(u, v.val),
       overflow |-> xnx.overflow \/ v.overflow \/ AddOverflows(u, v.val)]

\* The body bounded_u32 and bounded_u64 share, on the two words drawn and
\* the bound, all `as u128`: z (val), v, u + v, and whether a u128 operation
\* overflows.  xnx is x * n + x and v is y * n + y.
bounded_of(xnx, v) ==
  [val |-> Shr(WrappingAdd(Shr(xnx.val, 64), v.val), 64), v |-> v.val,
   uv |-> WrappingAdd(Shr(xnx.val, 64), v.val),
   overflow |-> \/ xnx.overflow \/ v.overflow
                \/ AddOverflows(Shr(xnx.val, 64), v.val)]
bounded(x, y, n) == bounded_of(mul_add(x, n), mul_add(y, n))

\* Rng::bounded_u32 and Rng::bounded_u64: d is the two words drawn
bounded_on(d, n) ==
  [x |-> d.x, y |-> d.y, state |-> d.state]
    @@ bounded(Ext(d.x, 16), Ext(d.y, 16), Ext(n, 16))
bounded_u32(s, n) == [bounded_on(u64_twice(s), n) EXCEPT !.val = Trunc(@, 4)]
bounded_u64(s, n) == [bounded_on(u64_twice(s), n) EXCEPT !.val = Trunc(@, 8)]

\* Rng::between_u32 with the bound taken as lo - hi
between_u32_lo_minus_hi(s, lo, hi) ==
  [bounded_u32(s, WrappingSub(lo, hi)) EXCEPT !.val = WrappingAdd(lo, @)]

\* Rng::between_u32, between_u64, between_i32, between_i64
between_u32(s, lo, hi) ==
  [bounded_u32(s, WrappingSub(hi, lo)) EXCEPT !.val = WrappingAdd(lo, @)]
between_u64(s, lo, hi) ==
  [bounded_u64(s, WrappingSub(hi, lo)) EXCEPT !.val = WrappingAdd(lo, @)]
between_i32(s, lo, hi) ==
  [between_u32(s, as_unsigned(lo), as_unsigned(hi)) EXCEPT !.val = as_signed(@)]
between_i64(s, lo, hi) ==
  [between_u64(s, as_unsigned(lo), as_unsigned(hi)) EXCEPT !.val = as_signed(@)]

\* Rng::f64 scaling by 2^-62
f64_scale62(s) ==
  [i64(s) EXCEPT !.val =
     And(W64(\h7fff, \hffff, \hffff, \hffff),
         float_mul_pow2(W64(\h3c10, 0, 0, 0), int_to_float(@, 8, 52), 52))]

\* Rng::f32 and Rng::f64: i64() with its word converted, scaled by 2^-63 and
\* its sign bit cleared
f32(s) ==
  [i64(s) EXCEPT !.val =
     And(W32(\h7fff, \hffff),
         float_mul_pow2(W32(\h2000, 0), int_to_float(@, 4, 23), 23))]
f64(s) ==
  [i64(s) EXCEPT !.val =
     And(W64(\h7fff, \hffff, \hffff, \hffff),
         float_mul_pow2(W64(\h3c00, 0, 0, 0), int_to_float(@, 8, 52), 52))]

---------------------------------------------------------------------------
(* Rng::bytes_inlined.  A fill in progress is a record: buf is the whole    *)
(* buffer, pos the offset at which the slice dst now starts, state the      *)
(* generator's state, words the number of u64() calls made, iters the       *)
(* number of passes of the while loop, tail the length of dst at the match  *)
(* (-1 before it), panic whether an assertion or a slice index has failed,  *)
(* unreachable whether the unreachable!() arm was taken.  Nothing runs      *)
(* after a panic.                                                           *)

\* dst.len()
DstLen(d) == Len(d.buf) - d.pos

\* The slice dst
Dst(d) == SubSeq(d.buf, d.pos + 1, Len(d.buf))

\* u64::to_le_bytes: byte i is (x >> 8 * i) as u8
to_le_bytes(x) == Tup([i \in 1..8 |-> At(Shr(x, 8 * (i - 1)), 0)])

\* u64::to_be_bytes
to_be_bytes(x) == SwapBytes(to_le_bytes(x))

\* *get_chunk_mut(slice, offset) = chunk, N the length of the chunk, on the
\* slice dst
get_chunk_mut(d, offset, N, chunk) ==
  IF d.panic THEN d
  ELSE IF ~get_chunk_ok(Dst(d), offset, N) THEN [d EXCEPT !.panic = TRUE]
  ELSE [d EXCEPT !.buf =
          Tup([i \in 1..Len(@) |->
                 IF i > d.pos + offset /\ i <= d.pos + offset + N
                   THEN chunk[i - d.pos - offset] ELSE @[i]])]
front_chunk_mut(d, N, chunk) == get_chunk_mut(d, 0, N, chunk)

\* dst = &mut dst[8 ..]
dst_from_8(d) ==
  IF d.panic THEN d
  ELSE IF 8 > DstLen(d) THEN [d EXCEPT !.panic = TRUE]
  ELSE [d EXCEPT !.pos = @ + 8]

\* The two words of one pass of the while loop, drawn and written
while_body(d, r) ==
  dst_from_8(front_chunk_mut(
    dst_from_8(front_chunk_mut(
      [d EXCEPT !.state = r.state, !.words = @ + 2, !.iters = @ + 1],
      8, to_le_bytes(r.x))),
    8, to_le_bytes(r.y)))

\* The while loop entered at 16 bytes
RECURSIVE bytes_while_16(_)
bytes_while_16(d) ==
  IF ~d.panic /\ DstLen(d) >= 16
    THEN bytes_while_16(while_body(d, u64_twice(d.state)))
    ELSE d

\* while dst.len() >= 17 { ... }
RECURSIVE bytes_while(_)
bytes_while(d) ==
  IF ~d.panic /\ DstLen(d) >= 17
    THEN bytes_while(while_body(d, u64_twice(d.state)))
    ELSE d

\* if dst.len() >= 9 { ... }
if_body(d, r) ==
  dst_from_8(front_chunk_mut(
    [d EXCEPT !.state = r.state, !.words = @ + 1], 8, to_le_bytes(r.val)))
bytes_if(d) ==
  IF ~d.panic /\ DstLen(d) >= 9 THEN if_body(d, u64(d.state)) ELSE d

\* let x = self.u64(); match dst.len() { ... }: the arm of length n copies
\* the front n bytes of x.to_le_bytes() to the front of dst
match_arm(d, n, le) ==
  IF n \in 1..8
    THEN IF get_chunk_ok(le, 0, n)
           THEN front_chunk_mut(d, n, front_chunk(le, n))
           ELSE [d EXCEPT !.panic = TRUE]
    ELSE [d EXCEPT !.panic = TRUE, !.unreachable = TRUE]

\* The match with the bytes of x taken in big-endian order
match_body_be(d, r) ==
  match_arm([d EXCEPT !.state = r.state, !.words = @ + 1, !.tail = DstLen(d)],
            DstLen(d), to_be_bytes(r.val))
bytes_match_be(d) == IF d.panic THEN d ELSE match_body_be(d, u64(d.state))

\* The match on x.to_le_bytes()
match_body(d, r) ==
  match_arm([d EXCEPT !.state = r.state, !.words = @ + 1, !.tail = DstLen(d)],
            DstLen(d), to_le_bytes(r.val))
bytes_match(d) == IF d.panic THEN d ELSE match_body(d, u64(d.state))

\* bytes_inlined on the generator in state s and the buffer dst
Filling(s, dst) ==
  [buf |-> dst, pos |-> 0, state |-> s, words |-> 0, iters |-> 0,
   tail |-> -1, panic |-> FALSE, unreachable |-> FALSE]
bytes_inlined_of(d) ==
  IF DstLen(d) = 0 THEN d ELSE bytes_match(bytes_if(bytes_while(d)))
bytes_inlined(s, dst) == bytes_inlined_of(Filling(s, dst))

\* Rng::bytes(dst), and Rng::byte_array::<N>() with its buf = [0; N]
bytes(s, dst) == bytes_inlined(s, dst)
byte_array(s, N) == bytes_inlined(s, Zeros(N))

---------------------------------------------------------------------------
(* The inputs the operations are given.                                    *)

\* The number of operations performed on a generator after its construction
MaxOps == 2

\* [u8; 15] seeds of Rng::new
Seeds15 == { Zeros(15), Tup([i \in 1..15 |-> IF i = 1 THEN 3 ELSE 0]) }

\* u64 seeds of Rng::from_u64
Seeds64 == { Zeros(8), MaxOf(8) }

\* Words of interest to the samplers: 1, 2^63 - 513, 2^63 - 1 (i64::MAX),
\* 2^63 (i64::MIN), 2^64 - 1
Words ==
  { One(8), W64(\h7fff, \hffff, \hffff, \hfdff),
    W64(\h7fff, \hffff, \hffff, \hffff), W64(\h8000, 0, 0, 0), MaxOf(8) }

\* Non-zero states given to Rng::from_state.  From the state with low half 0
\* and high half w the first word drawn is w; from low half 1 and high half
\* 2^64 - 1 it is 0; from low half 2^64 - 1 and high half 0 the first two
\* words drawn are both 2^64 - 1; 1 is NonZeroU128::MIN.
RawStates ==
  { Pack(Zeros(8), w) : w \in Words }
    \cup { One(16), Pack(One(8), MaxOf(8)), Pack(MaxOf(8), Zeros(8)) }

\* What getrandom::fill may write, and the [u8; 16] seeds of from_seed
EntropyBufs == { Zeros(16), Tup([i \in 1..16 |-> 2 * i]) }

\* f64 arguments of bernoulli: 0, -0, -1, 1, +infinity, a NaN, 1/2
Probabilities ==
  { Zeros(8), W64(\h8000, 0, 0, 0), W64(\hbff0, 0, 0, 0), W64(\h3ff0, 0, 0, 0),
    W64(\h7ff0, 0, 0, 0), W64(\hfff0, 0, 0, 1), W64(\h3fe0, 0, 0, 0) }

\* Bounds of bounded_u32 and bounded_u64
Bounds32 == { Zeros(4), FromNat(5, 4), MaxOf(4) }
Bounds64 == { Zeros(8), FromNat(5, 8), W64(\h8000, 0, 0, 0), MaxOf(8) }

\* lo, hi of the between operations, hi < lo and lo = hi included
Si(k, n) == [neg |-> k < 0, mag |-> FromNat(IF k < 0 THEN -k ELSE k, n)]
SMin(n) == [neg |-> TRUE, mag |-> Shl(One(n), 8 * n - 1)]
SMax(n) == [neg |-> FALSE, mag |-> Shr(MaxOf(n), 1)]
RangesU(n) ==
  { <<FromNat(6, n), FromNat(1, n)>>, <<FromNat(5, n), FromNat(5, n)>>,
    <<Zeros(n), MaxOf(n)>> }
RangesI(n) ==
  { <<Si(-3, n), Si(2, n)>>, <<Si(-1, n), Si(-1, n)>>, <<SMax(n), SMin(n)>> }

---------------------------------------------------------------------------
(* Construction.                                                           *)

Constructed(s, how, arg, panic) ==
  /\ state = s
  /\ child = <<>>
  /\ out = [op |-> how, arg |-> arg, panic |-> panic]
  /\ pc = 0

InitNew ==
  \E seed \in Seeds15 :
    Constructed(new(seed), "new", seed,
                \/ ~get_chunk_ok(seed, 0, 8) \/ ~get_chunk_ok(seed, 7, 8)
                \/ unwrap_panics(new_packed(seed)))
InitFromU64 ==
  \E seed \in Seeds64 :
    Constructed(from_u64(seed), "from_u64", seed,
                unwrap_panics(from_u64_packed(seed)))
InitFromState ==
  \E s \in RawStates : Constructed(from_state(s), "from_state", s, FALSE)
InitFromOperatingSystem ==
  \E buf \in EntropyBufs :
    Constructed(from_operating_system(buf), "from_operating_system", buf,
                unwrap_panics(from_operating_system(buf)))
InitFromSeed ==
  \E seed \in EntropyBufs :
    Constructed(from_seed(seed), "from_seed", seed, unwrap_panics(from_seed(seed)))

Init ==
  \/ InitNew
  \/ InitFromU64
  \/ InitFromState
  \/ InitFromOperatingSystem
  \/ InitFromSeed

---------------------------------------------------------------------------
(* The operations on a generator.                                          *)

\* An operation that returns r.val and leaves the generator in r.state
Sampled(op, arg, r) ==
  /\ pc < MaxOps
  /\ state' = r.state
  /\ out' = [op |-> op, arg |-> arg, pre |-> state, r |-> r]
  /\ pc' = pc + 1
  /\ UNCHANGED child

U64 == Sampled("u64", <<>>, u64(state))
I64 == Sampled("i64", <<>>, i64(state))
I32 == Sampled("i32", <<>>, i32(state))
U32 == Sampled("u32", <<>>, u32(state))
Bool == Sampled("bool", <<>>, bool(state))
Bernoulli == \E p \in Probabilities : Sampled("bernoulli", p, bernoulli(state, p))
BoundedU32 == \E n \in Bounds32 : Sampled("bounded_u32", n, bounded_u32(state, n))
BoundedU64 == \E n \in Bounds64 : Sampled("bounded_u64", n, bounded_u64(state, n))
BetweenU32 ==
  \E a \in RangesU(4) : Sampled("between_u32", a, between_u32(state, a[1], a[2]))
BetweenU64 ==
  \E a \in RangesU(8) : Sampled("between_u64", a, between_u64(state, a[1], a[2]))
BetweenI32 ==
  \E a \in RangesI(4) : Sampled("between_i32", a, between_i32(state, a[1], a[2]))
BetweenI64 ==
  \E a \in RangesI(8) : Sampled("between_i64", a, between_i64(state, a[1], a[2]))
F32 == Sampled("f32", <<>>, f32(state))
F64 == Sampled("f64", <<>>, f64(state))

\* Rng::split, and SeedableRng::from_rng drawing from this generator: r.child
\* is the state of the generator made
Forked(op, r) ==
  /\ pc < MaxOps
  /\ state' = r.state
  /\ child' = r.child
  /\ out' = [op |-> op, arg |-> <<>>, pre |-> state, r |-> r]
  /\ pc' = pc + 1

Split == Forked("split", split(state))
FromRng == Forked("from_rng", from_rng(state))

Next ==
  \/ U64
  \/ I64
  \/ I32
  \/ U32
  \/ Bool
  \/ Bernoulli
  \/ BoundedU32
  \/ BoundedU64
  \/ BetweenU32
  \/ BetweenU64
  \/ BetweenI32
  \/ BetweenI64
  \/ F32
  \/ F64
  \/ Split
  \/ FromRng

Spec == Init /\ [][Next]_vars

---------------------------------------------------------------------------
(* test_vectors (tests/all.rs): a generator is made from a raw state, ten   *)
(* words are drawn from it, a generator is split off it and ten words are   *)
(* drawn from that one.  out.words is what the test writes.                 *)

\* The number of words drawn from each generator
VectorLen == 10

\* The raw states the run starts from; the test starts from NonZeroU128::MIN
VectorStates == RawStates \cup { from_u64(Zeros(8)), new(Zeros(15)) }

VInit ==
  \E s \in VectorStates :
    /\ state = from_state(s)
    /\ child = <<>>
    /\ out = [op |-> "test_vectors", start |-> s, pre |-> s, words |-> <<>>]
    /\ pc = 0

VDraw ==
  /\ pc < VectorLen
  /\ state' = u64(state).state
  /\ out' = [out EXCEPT !.pre = state, !.words = Append(@, u64(state).val)]
  /\ pc' = pc + 1
  /\ UNCHANGED child

VSplit ==
  /\ pc = VectorLen
  /\ state' = split(state).state
  /\ child' = split(state).child
  /\ pc' = pc + 1
  /\ UNCHANGED out

VDrawSplit ==
  /\ pc > VectorLen
  /\ pc <= 2 * VectorLen
  /\ child' = u64(child).state
  /\ out' = [out EXCEPT !.pre = child, !.words = Append(@, u64(child).val)]
  /\ pc' = pc + 1
  /\ UNCHANGED state

VNext ==
  \/ VDraw
  \/ VSplit
  \/ VDrawSplit

SpecVectors == VInit /\ [][VNext]_vars

\* The words test_vectors expects
ExpectedWords ==
  << W64(\h0000, \h0000, \h0000, \h0001), W64(\h0000, \h0000, \h0000, \h0001),
     W64(\h0200, \h0000, \h0000, \h0001), W64(\h0008, \h0001, \h0000, \h1001),
     W64(\h4008, \h0851, \h0004, \h0001), W64(\h0405, \h1050, \h0044, \h1012),
     W64(\h424a, \h0075, \h2188, \h0121), W64(\h8845, \h0120, \h82d5, \h1c52),
     W64(\h0842, \h122c, \h46a5, \ha552), W64(\h0201, \h0118, \h8672, \h1d42),
     W64(\hffaa, \hf841, \haa79, \h59b7), W64(\hb798, \h630d, \hd137, \h7d07),
     W64(\h23f3, \hfd81, \h00c2, \h5d34), W64(\h3d75, \hb7fb, \h36f3, \h7583),
     W64(\h7c34, \ha499, \h955c, \h8497), W64(\h8b72, \h2c5d, \h1c5a, \h2c53),
     W64(\h1d0d, \h28f4, \h8c5f, \h87e2), W64(\he127, \hf906, \hc2fa, \hd5a3),
     W64(\h3e2e, \h7ae1, \h7e53, \h9dff), W64(\hca48, \h0e0b, \h9898, \h5977) >>

---------------------------------------------------------------------------
(* bernoulli(p) over every word u64() can return, the words taken as        *)
(* equally likely.  The words are tallied by their number k of trailing     *)
(* zeros: those with k < 64 are (2j + 1) * 2^k for j < 2^(63 - k), and k =  *)
(* 64 is the word 0.  For the words of one k the exponent of t is the same  *)
(* and its mantissa x >> 12 grows with j, so the words for which t < p are  *)
(* those of the least j, and a step tries bernoulli(p) on one word to       *)
(* settle one more bit of their number out.n.  pc is k, and out.count is    *)
(* the number of words of fewer trailing zeros for which bernoulli(p) is    *)
(* true.                                                                    *)

\* The number of bits of a word
WordBits == 64

\* Arguments of bernoulli: 1/2, 1, 2^-64, 2^-13 + 2^-64, 2^-65,
\* 2^-13 + 2^-65
TallyProbabilities ==
  { W64(\h3fe0, 0, 0, 0), W64(\h3ff0, 0, 0, 0), W64(\h3bf0, 0, 0, 0),
    W64(\h3f20, 0, 0, 2), W64(\h3be0, 0, 0, 0), W64(\h3f20, 0, 0, 1) }

\* The word (2j + 1) * 2^k
WordOf(k, j) == Shl(Or(Shl(j, 1), One(8)), k)

\* The number of words with k trailing zeros is 2^ClassBits(k)
ClassBits(k) == IF k = WordBits THEN 0 ELSE WordBits - 1 - k

TallyInit ==
  \E p \in TallyProbabilities :
    /\ state = One(16)
    /\ child = <<>>
    /\ out = [op |-> "tally", arg |-> p, n |-> Zeros(8), b |-> ClassBits(0),
              count |-> Zeros(9)]
    /\ pc = 0

TallyWord ==
  /\ pc <= WordBits
  /\ LET more == WrappingAdd(out.n, Shl(One(8), out.b))
         j == WrappingSub(more, One(8))
         inside == Le(more, Shl(One(8), ClassBits(pc)))
         n == IF inside /\ bernoulli_of_word(WordOf(pc, j), out.arg).val
              THEN more ELSE out.n
     IN  IF out.b > 0
         THEN /\ out' = [out EXCEPT !.n = n, !.b = @ - 1]
              /\ pc' = pc
         ELSE /\ out' = [out EXCEPT !.n = Zeros(8), !.b = ClassBits(pc + 1),
                                    !.count = Trunc(Add(@, Ext(n, 9)), 9)]
              /\ pc' = pc + 1
  /\ UNCHANGED <<state, child>>

SpecTally == TallyInit /\ [][TallyWord]_vars

---------------------------------------------------------------------------
(* The claims.                                                             *)

Constructors == {"new", "from_u64", "from_state", "from_operating_system", "from_seed"}
Halves(s) == [x |-> Trunc(s, 8), y |-> Trunc(Shr(s, 64), 8)]

\* C1: the state of a generator is never zero: not after any constructor
\* (none of which panics on the way), not after any operation, and neither
\* is the state of a generator split off it.
C1_StateNeverZero ==
  /\ ~IsZero(state)
  /\ (child # <<>> => ~IsZero(child))
  /\ (out.op \in Constructors => ~out.panic)
  /\ (out.op \in {"split", "from_rng"} => ~out.r.panic)

\* C1 witness: a second operation, a u64() step, has left a non-zero state.
C1_Witness == pc = 2 /\ out.op = "u64" /\ ~IsZero(state) /\ state # out.pre

\* C2 as stated: after seeding by Rng::new or Rng::from_u64, or after
\* split(), the lowest bit of the new generator's state is 1.
C2_SeededOrSplitIsOdd ==
  /\ (out.op \in {"new", "from_u64"} => Bit(state, 0) = 1)
  /\ (out.op = "split" => Bit(child, 0) = 1)

\* C2 amended: after split() the lowest bit of the child's state is 1; after
\* seeding by Rng::new or Rng::from_u64 the state is non-zero (its lowest
\* bit may be 0).
C2_SplitIsOddSeededIsNonZero ==
  /\ (out.op \in {"new", "from_u64"} => ~IsZero(state))
  /\ (out.op = "split" => Bit(child, 0) = 1)

\* C2 witness: split() drew an even first word, and the child's state is odd.
C2_Witness == out.op = "split" /\ Bit(out.r.x, 0) = 0 /\ Bit(child, 0) = 1

\* C3: each word drawn is y + (lo64(x * x) XOR hi64(x * x)) mod 2^64 and
\* leaves the state (right after the draw) with low half y XOR (y >> 19) and
\* high half x XOR rotate_right(y, 7), x and y the halves of the state
\* before; and from
\* raw state 1 the ten words drawn, then the ten words drawn from the
\* generator split off, are the words test_vectors expects.
C3_TestVectors ==
  /\ out.start = One(16) => out.words = SubSeq(ExpectedWords, 1, Len(out.words))
  /\ out.words # <<>> /\ pc # VectorLen + 1 =>
       LET x == Halves(out.pre).x
           y == Halves(out.pre).y
           now == IF pc <= VectorLen THEN state ELSE child
       IN  /\ out.words[Len(out.words)]
                = WrappingAdd(y, Xor(Trunc(Mul(x, x), 8), SubSeq(Mul(x, x), 9, 16)))
           /\ Halves(now).x = Xor(y, Shr(y, 19))
           /\ Halves(now).y = Xor(x, RotateRight(y, 7))

\* C3 witness: from raw state 1, all twenty words have been drawn.
C3_Witness == out.start = One(16) /\ Len(out.words) = 2 * VectorLen

\* C4: split() leaves the parent in the state two u64() calls leave it in,
\* and the child's state is (x OR (y << 64)) OR 1 for the words x, y those
\* two calls return.
C4_SplitDrawsTwoWords ==
  out.op = "split" =>
    LET r1 == u64(out.pre)
        r2 == u64(r1.state)
    IN  /\ state = r2.state
        /\ child = Or(Or(Ext(r1.val, 16), Shl(Ext(r2.val, 16), 64)), One(16))

\* C4 witness: a generator that had already been used was split, and the two
\* words drawn differ.
C4_Witness == out.op = "split" /\ pc = 2 /\ out.r.x # out.r.y

\* C5: bounded_u32(n) and bounded_u64(n) return a value r <= n, and 0 for
\* n = 0.
C5_BoundedWithinBound ==
  out.op \in {"bounded_u32", "bounded_u64"} =>
    /\ Le(out.r.val, out.arg)
    /\ (IsZero(out.arg) => IsZero(out.r.val))

\* C5 witness: bounded_u64(n) returned n itself, for a non-zero n.
C5_Witness == out.op = "bounded_u64" /\ ~IsZero(out.arg) /\ out.r.val = out.arg

\* C6: in bounded_u32 and bounded_u64 no u128 multiplication or addition
\* overflows, the greatest bound included.
C6_BoundedNeverOverflows ==
  out.op \in {"bounded_u32", "bounded_u64"} => ~out.r.overflow

\* C6 witness: bounded_u64(u64::MAX) drew u64::MAX twice, and u + v was
\* 2^128 - 1.
C6_Witness ==
  /\ out.op = "bounded_u64"
  /\ out.arg = MaxOf(8)
  /\ out.r.x = MaxOf(8)
  /\ out.r.y = MaxOf(8)
  /\ out.r.uv = MaxOf(16)

\* r lies on the wrapping interval from lo forward to hi, all of one width
OnWrappingInterval(r, lo, hi) == Le(WrappingSub(r, lo), WrappingSub(hi, lo))

\* a <= b on signed integers
SLe(a, b) ==
  CASE a.neg /\ ~b.neg -> TRUE
    [] ~a.neg /\ b.neg -> FALSE
    [] a.neg /\ b.neg -> Le(b.mag, a.mag)
    [] OTHER -> Le(a.mag, b.mag)

\* C7: the between operations do not overflow, and return a value r on the
\* wrapping interval from lo forward to hi (lo itself when lo = hi); the
\* signed operations do so on the two's complement encodings, so that
\* lo <= r <= hi when lo <= hi.
C7_BetweenOnWrappingInterval ==
  /\ out.op \in {"between_u32", "between_u64"} =>
       /\ ~out.r.overflow
       /\ OnWrappingInterval(out.r.val, out.arg[1], out.arg[2])
       /\ (out.arg[1] = out.arg[2] => out.r.val = out.arg[1])
  /\ out.op \in {"between_i32", "between_i64"} =>
       /\ ~out.r.overflow
       /\ OnWrappingInterval(as_unsigned(out.r.val), as_unsigned(out.arg[1]),
                             as_unsigned(out.arg[2]))
       /\ (out.arg[1] = out.arg[2] => out.r.val = out.arg[1])
       /\ (SLe(out.arg[1], out.arg[2]) =>
             SLe(out.arg[1], out.r.val) /\ SLe(out.r.val, out.arg[2]))

\* C7 witness: between_u32(lo, hi) with hi < lo returned a value below lo.
C7_Witness ==
  /\ out.op = "between_u32"
  /\ Lt(out.arg[2], out.arg[1])
  /\ Lt(out.r.val, out.arg[1])

\* 0.0 and 1.0 as f64 and f32
F64Zero == Zeros(8)
F64One == W64(\h3ff0, 0, 0, 0)
F32Zero == Zeros(4)
F32One == W32(\h3f80, 0)

\* C8: bernoulli(p) is false for p <= 0 and for a NaN p, and true for
\* p >= 1; the value t compared with p is finite with 0 < t < 1, and the
\* addition that builds its bit pattern does not overflow.
C8_BernoulliExtremes ==
  out.op = "bernoulli" =>
    /\ (FIsNaN(out.arg, 52) \/ FLe(out.arg, F64Zero, 52) => out.r.val = FALSE)
    /\ (FLe(F64One, out.arg, 52) => out.r.val = TRUE)
    /\ FIsFinite(out.r.t, 52)
    /\ FLt(F64Zero, out.r.t, 52)
    /\ FLt(out.r.t, F64One, 52)
    /\ ~out.r.overflow

\* C8 witness: bernoulli(1.0) drew the word 0.
C8_Witness == out.op = "bernoulli" /\ out.arg = F64One /\ IsZero(out.r.x)

\* C10 as stated: f32() and f64() return a value in [0, 1), never 1.0.
C10_FloatBelowOne ==
  /\ out.op = "f64" => FLe(F64Zero, out.r.val, 52) /\ FLt(out.r.val, F64One, 52)
  /\ out.op = "f32" => FLe(F32Zero, out.r.val, 23) /\ FLt(out.r.val, F32One, 23)

\* C10 amended: f32() and f64() return a value in [0, 1], with the sign bit
\* clear (never negative, never -0).
C10_FloatInUnitInterval ==
  /\ out.op = "f64" =>
       /\ FLe(F64Zero, out.r.val, 52)
       /\ FLe(out.r.val, F64One, 52)
       /\ FSign(out.r.val) = 0
  /\ out.op = "f32" =>
       /\ FLe(F32Zero, out.r.val, 23)
       /\ FLe(out.r.val, F32One, 23)
       /\ FSign(out.r.val) = 0

\* C10 witness: f64() drew i64::MIN and returned 1.0.
C10_Witness ==
  /\ out.op = "f64"
  /\ i64(out.pre).val = SMin(8)
  /\ out.r.val = F64One

\* p * 2^128 for a finite p >= 0 that is a multiple of 2^-128, as an integer
\* of 24 bytes; and whether p is such a multiple, of 2^-128 and of 2^-64
FSig(p) == IF FExp(p, 52) = 0 THEN FFrac(p, 52) ELSE Or(FFrac(p, 52), Shl(One(8), 52))
FShift(p) == (IF FExp(p, 52) = 0 THEN 1 ELSE FExp(p, 52)) - 1075
Scaled(p, bits) ==
  IF FShift(p) + bits >= 0 THEN Shl(Ext(FSig(p), 24), FShift(p) + bits)
  ELSE Shr(Ext(FSig(p), 24), -(FShift(p) + bits))
IsMultiple(p, bits) ==
  \/ FShift(p) + bits >= 0
  \/ -(FShift(p) + bits) >= 64
       /\ IsZero(FSig(p))
  \/ -(FShift(p) + bits) < 64
       /\ Shl(Shr(FSig(p), -(FShift(p) + bits)), -(FShift(p) + bits)) = FSig(p)
InUnitInterval(p) == FLe(F64Zero, p, 52) /\ FLe(p, F64One, 52)

\* C9: for every f64 p in [0, 1] that is a multiple of 2^-128, the fraction
\* of the 2^64 words for which bernoulli(p) is true is exactly p, that is,
\* their number times 2^64 is p * 2^128.
C9_BernoulliExact128 ==
  pc = WordBits + 1 /\ InUnitInterval(out.arg) /\ IsMultiple(out.arg, 128) =>
    Shl(Ext(out.count, 24), 64) = Scaled(out.arg, 128)

\* For the p that are multiples of 2^-64 the fraction is exactly p.
C9_BernoulliExact64 ==
  pc = WordBits + 1 /\ InUnitInterval(out.arg) /\ IsMultiple(out.arg, 64) =>
    Shl(Ext(out.count, 24), 64) = Scaled(out.arg, 128)

\* The words have been tallied for p = 2^-13 + 2^-64: 2^51 + 1 of them.
C9_Exact64Witness ==
  /\ pc = WordBits + 1
  /\ out.arg = W64(\h3f20, 0, 0, 2)
  /\ out.count = Ext(W64(\h0008, 0, 0, 1), 9)

\* The words have been tallied for p = 2^-13 + 2^-65, and for p = 2^-65:
\* 2^51 of them, and none.
C9_TalliedBelow64 ==
  pc = WordBits + 1 =>
    /\ out.arg = W64(\h3f20, 0, 0, 1) => out.count = Ext(W64(\h0008, 0, 0, 0), 9)
    /\ out.arg = W64(\h3be0, 0, 0, 0) => out.count = Zeros(9)

---------------------------------------------------------------------------
(* Filling buffers: a generator is made and buffers of every length up to   *)
(* MaxLen are filled from it, by bytes and by byte_array.  out.r is the     *)
(* fill as bytes_inlined left it.                                           *)

\* The longest buffer filled, and the number of fills made on a generator
MaxLen == 34
MaxFills == 1

\* The raw state given to Rng::from_state: the first two words drawn from
\* it are both 2^64 - 1
FillStates == { Pack(MaxOf(8), Zeros(8)) }

\* What the caller's buffer holds before bytes(dst)
Dirty(L) == Tup([i \in 1..L |-> \haa])

\* The generator is made by Rng::new or by Rng::from_state
BInitFromState ==
  \E s \in FillStates : Constructed(from_state(s), "from_state", s, FALSE)
BInit ==
  \/ InitNew
  \/ BInitFromState

Filled(op, L, r) ==
  /\ pc < MaxFills
  /\ state' = r.state
  /\ out' = [op |-> op, arg |-> L, pre |-> state, r |-> r]
  /\ pc' = pc + 1
  /\ UNCHANGED child

Bytes == \E L \in 0..MaxLen : Filled("bytes", L, bytes(state, Dirty(L)))
ByteArray == \E L \in 0..MaxLen : Filled("byte_array", L, byte_array(state, L))

BNext ==
  \/ Bytes
  \/ ByteArray

SpecBytes == BInit /\ [][BNext]_vars

---------------------------------------------------------------------------
(* C11.                                                                    *)

\* The reference fill: n words drawn by successive u64() calls from state s
RefPush(prev, r) == [words |-> Append(prev.words, r.val), state |-> r.state]
RefAfter(prev) == RefPush(prev, u64(prev.state))
RECURSIVE RefWords(_, _)
RefWords(s, n) ==
  IF n = 0 THEN [words |-> <<>>, state |-> s] ELSE RefAfter(RefWords(s, n - 1))

\* ceil(L / 8)
CeilDiv8(L) == (L + 7) \div 8

\* Byte i (from 0) of the reference fill: little-endian byte i mod 8 of the
\* word of index i div 8
RefByte(ref, i) == ref.words[(i \div 8) + 1][(i % 8) + 1]

\* The fill r of L bytes is the reference fill ref
IsReferenceFill(r, ref, L) ==
  /\ ~r.panic
  /\ r.words = CeilDiv8(L)
  /\ r.state = ref.state
  /\ Len(r.buf) = L
  /\ \A i \in 0..(L - 1) : r.buf[i + 1] = RefByte(ref, i)

\* Two fills that leave the same bytes and the same state
SameFill(r1, r2) == r1.buf = r2.buf /\ r1.state = r2.state

AfterFill == out.op \in {"bytes", "byte_array"}

\* C11: a fill of L bytes from state s, by bytes or by byte_array, draws
\* exactly ceil(L / 8) words by successive u64() calls (none for L = 0, the
\* state then unchanged) and sets byte i to little-endian byte i mod 8 of
\* the word of index i div 8; for every L1 < L its first L1 bytes are the
\* fill of length L1 from the same state; and bytes and byte_array leave
\* the same bytes and the same state.
C11_FillIsReference ==
  AfterFill =>
    /\ IsReferenceFill(out.r, RefWords(out.pre, CeilDiv8(out.arg)), out.arg)
    /\ out.arg = 0 => out.r.state = out.pre /\ out.r.words = 0
    /\ \A L1 \in 0..(out.arg - 1) :
         Trunc(out.r.buf, L1) = bytes(out.pre, Dirty(L1)).buf
    /\ SameFill(bytes(out.pre, Dirty(out.arg)), byte_array(out.pre, out.arg))
    /\ SameFill(out.r, byte_array(out.pre, out.arg))

\* A fill of 33 bytes: two passes of the loop and a one-byte tail, five
\* words, the bytes not those the buffer held before
C11_Witness ==
  /\ out.op = "bytes"
  /\ out.arg = 33
  /\ out.r.words = 5
  /\ out.r.iters = 2
  /\ out.r.tail = 1
  /\ ~out.r.panic
  /\ Trunc(out.r.buf, 8) = to_le_bytes(u64(out.pre).val)

---------------------------------------------------------------------------
(* Seeding: a generator is made by Rng::new or Rng::from_u64, and then a    *)
(* second one is, its state kept in child.  out describes the generator     *)
(* made last, out.first the one made before it.                             *)

\* [u8; 15] seeds: all zero, all 255, and one byte set, among them byte 7
\* (read by both chunks of Rng::new), byte 8 (bit 64 of the packed value)
\* and byte 14 (the last)
Seed15(k, v) == Tup([i \in 1..15 |-> IF i = k + 1 THEN v ELSE 0])
SeedArrays ==
  { Zeros(15), MaxOf(15) }
    \cup { Seed15(k, v) : k \in {0, 7, 8, 14}, v \in {1, 128} }

\* u64 seeds: 0, 1, 2^56, 2^63, 2^64 - 1
SeedWords ==
  { Zeros(8), One(8), Shl(One(8), 56), Shl(One(8), 63), MaxOf(8) }

\* A constructor and its argument
SeedInputs ==
  [op : {"new"}, arg : SeedArrays] \cup [op : {"from_u64"}, arg : SeedWords]

\* The value hashed, the assertions and unwraps on the way, and the state
Packed(g) ==
  IF g.op = "new" THEN new_packed(g.arg) ELSE from_u64_packed(g.arg)
SeedPanics(g) ==
  \/ g.op = "new" /\ (~get_chunk_ok(g.arg, 0, 8) \/ ~get_chunk_ok(g.arg, 7, 8))
  \/ unwrap_panics(Packed(g))
Seeded(g) == IF g.op = "new" THEN new(g.arg) ELSE from_u64(g.arg)

SeedInit ==
  \E g \in SeedInputs : Constructed(Seeded(g), g.op, g.arg, SeedPanics(g))

SeedAnother(g) ==
  /\ pc = 0
  /\ child' = Seeded(g)
  /\ out' = [op |-> g.op, arg |-> g.arg, panic |-> SeedPanics(g), first |-> out]
  /\ pc' = 1
  /\ UNCHANGED state

NewAnother == \E g \in [op : {"new"}, arg : SeedArrays] : SeedAnother(g)
FromU64Another == \E g \in [op : {"from_u64"}, arg : SeedWords] : SeedAnother(g)

SeedNext ==
  \/ NewAnother
  \/ FromU64Another

SpecSeed == SeedInit /\ [][SeedNext]_vars

\* The state of the generator made last
LastSeeded == IF pc = 0 THEN state ELSE child

---------------------------------------------------------------------------
(* C12.                                                                    *)

\* Three multiplications by M with a byte reversal between one and the next
HashTwoReversals(x) ==
  WrappingMul(SwapBytes(WrappingMul(SwapBytes(WrappingMul(x, M)), M)), M)

\* The first values of bounded_u32(5) that test_vectors expects of
\* Rng::new([0; 15]), and k values of bounded_u32(5) from state s
ExpectedBounded == << FromNat(4, 4), FromNat(5, 4), FromNat(3, 4), FromNat(2, 4) >>
RECURSIVE BoundedRun(_, _)
BoundedCons(r, k) == <<r.val>> \o BoundedRun(r.state, k - 1)
BoundedRun(s, k) ==
  IF k = 0 THEN <<>> ELSE BoundedCons(bounded_u32(s, FromNat(5, 4)), k)

\* C12 as stated: Rng::new and Rng::from_u64 set the state to three rounds
\* of {wrapping multiplication by the odd constant M, byte reversal} of the
\* packed seed, the last step being a byte reversal.
C12_HashIsThreeRounds ==
  /\ Bit(M, 0) = 1
  /\ LastSeeded = hash_three_rounds(Packed(out))

\* C12: Rng::new and Rng::from_u64 set the state to the packed seed taken
\* through three wrapping multiplications by the odd constant M with a byte
\* reversal between one multiplication and the next: three multiplications
\* and two byte reversals, the last step being a multiplication.  The values
\* test_vectors expects of Rng::new([0; 15]) are those of this state.
C12_HashIsThreeMultiplications ==
  /\ Bit(M, 0) = 1
  /\ LastSeeded = HashTwoReversals(Packed(out))
  /\ ~out.panic
  /\ out.op = "new" /\ out.arg = Zeros(15) =>
       BoundedRun(LastSeeded, Len(ExpectedBounded)) = ExpectedBounded

\* C12 witness: the second generator is Rng::from_u64(0), and its state is
\* 0x52473085ab6537b5e7bfbe7312352d14, not the byte reversal of it
C12_Witness ==
  /\ pc = 1
  /\ out.op = "from_u64"
  /\ out.arg = Zeros(8)
  /\ child = Pack(W64(\he7bf, \hbe73, \h1235, \h2d14),
                  W64(\h5247, \h3085, \hab65, \h37b5))
  /\ child # hash_three_rounds(Packed(out))

---------------------------------------------------------------------------
(* mod thread_local.  state[t] is the cell RNG of thread t, None or the     *)
(* state it holds; child is the generator thread_local::split returned      *)
(* last; pc counts the operations performed, on all threads together.       *)
(* out.log[t] records, for thread t, the buffers getrandom::fill has        *)
(* written for it (entropy), whether it panicked because getrandom::fill    *)
(* failed, and the operations it has performed in order, each with the      *)
(* value returned; out.thread and out.op are the operation performed last   *)
(* and out.pre the cells before it.                                         *)

\* The number of thread-local operations performed
MaxThreadOps == 3

Threads == {"main", "spawned"}

\* Option::None, in the cell
None == <<>>

\* The generator `with` hands to f: from the operating system when the cell
\* holds None, buf being what getrandom::fill wrote; from the state in the
\* cell otherwise
with_rng(cell, buf) ==
  IF cell = None THEN from_operating_system(buf) ELSE from_state(cell)

\* Whether `with` asks the operating system, and what getrandom::fill may
\* then write
Requests(cell) == cell = None
EntropyFor(cell) == IF Requests(cell) THEN EntropyBufs ELSE {<<>>}

\* A cell shared by all the threads
cell_set_shared(cells, t, s) == [u \in DOMAIN cells |-> s]

\* cell.set(Some(rng.state())) on thread t
cell_set(cells, t, s) == [cells EXCEPT ![t] = s]

\* The operations, as they act on the generator handed to f: the value
\* returned and the state left
tl_u64(s) == u64(s)
tl_split_of(r) == [val |-> r.child, state |-> r.state]
tl_split(s) == tl_split_of(split(s))
tl_byte_array_of(r) == [val |-> r.buf, state |-> r.state]
tl_byte_array(s) == tl_byte_array_of(byte_array(s, 16))

TInit ==
  /\ state = [t \in Threads |-> None]
  /\ child = <<>>
  /\ out = [log |-> [t \in Threads |->
                       [entropy |-> <<>>, failed |-> FALSE, ops |-> <<>>]],
            thread |-> "", op |-> "", pre |-> <<>>]
  /\ pc = 0

\* `with` on thread t, f being the operation op, which returns r.val and
\* leaves the generator in r.state
With(t, buf, op, r) ==
  /\ pc < MaxThreadOps
  /\ ~out.log[t].failed
  /\ state' = cell_set(state, t, r.state)
  /\ out' = [log |-> [out.log EXCEPT
                        ![t].entropy =
                          IF Requests(state[t]) THEN Append(@, buf) ELSE @,
                        ![t].ops = Append(@, [op |-> op, val |-> r.val])],
             thread |-> t, op |-> op, pre |-> state]
  /\ pc' = pc + 1

TlU64 ==
  \E t \in Threads : \E buf \in EntropyFor(state[t]) :
    /\ With(t, buf, "u64", tl_u64(with_rng(state[t], buf)))
    /\ UNCHANGED child
TlSplit ==
  \E t \in Threads : \E buf \in EntropyFor(state[t]) :
    /\ With(t, buf, "split", tl_split(with_rng(state[t], buf)))
    /\ child' = out'.log[t].ops[Len(out'.log[t].ops)].val
TlByteArray ==
  \E t \in Threads : \E buf \in EntropyFor(state[t]) :
    /\ With(t, buf, "byte_array", tl_byte_array(with_rng(state[t], buf)))
    /\ UNCHANGED child

\* getrandom::fill fails in from_operating_system: expect panics, before f
\* runs and before the cell is set
GetrandomFails ==
  \E t \in Threads :
    /\ pc < MaxThreadOps
    /\ ~out.log[t].failed
    /\ Requests(state[t])
    /\ out' = [log |-> [out.log EXCEPT ![t].failed = TRUE],
               thread |-> t, op |-> "panic", pre |-> state]
    /\ pc' = pc + 1
    /\ UNCHANGED <<state, child>>

TNext ==
  \/ TlU64
  \/ TlSplit
  \/ TlByteArray
  \/ GetrandomFails

SpecThreads == TInit /\ [][TNext]_vars

---------------------------------------------------------------------------
(* C13.                                                                    *)

\* The operation named op on an explicit generator in state s
ApplyOp(op, s) ==
  CASE op = "u64" -> u64(s)
    [] op = "split" -> tl_split(s)
    [] op = "byte_array" -> tl_byte_array(s)

\* The state an explicit generator in state s is left in by the operations
\* of ops from index k on, None if one of them returns another value than
\* the one recorded
RECURSIVE Replay(_, _, _)
ReplayStep(r, ops, k) ==
  IF r.val = ops[k].val THEN Replay(r.state, ops, k + 1) ELSE None
Replay(s, ops, k) ==
  IF k > Len(ops) THEN s ELSE ReplayStep(ApplyOp(ops[k].op, s), ops, k)

\* C13: on each thread the operating system is asked for entropy at most
\* once, in the first operation, when the cell is empty; the operations of
\* a thread return what the same operations return on one explicit Rng made
\* from that entropy, and the cell holds the state that Rng is left in; an
\* operation on one thread leaves the cells of the other threads as they
\* were.
C13_ThreadLocalIsOneRng ==
  /\ \A t \in Threads :
       /\ out.log[t].ops = <<>> <=> state[t] = None
       /\ out.log[t].ops = <<>> => out.log[t].entropy = <<>>
       /\ out.log[t].ops # <<>> =>
            /\ Len(out.log[t].entropy) = 1
            /\ ~out.log[t].failed
            /\ state[t] =
                 Replay(from_operating_system(out.log[t].entropy[1]),
                        out.log[t].ops, 1)
  /\ pc > 0 => \A u \in Threads \ {out.thread} : state[u] = out.pre[u]

\* C13 witness: one thread has performed two operations, the second from
\* the state the first wrote back, after the other thread performed one
C13_Witness ==
  /\ Len(out.log["main"].ops) = 2
  /\ Len(out.log["spawned"].ops) = 1
  /\ out.thread = "main"
  /\ out.pre["main"] # None
  /\ out.log["main"].entropy # out.log["spawned"].entropy
  /\ state["main"] # state["spawned"]

---------------------------------------------------------------------------
(* C14.                                                                    *)

\* C14: in a fill of L >= 1 bytes the while loop ends, after (L - 1) div 16
\* passes, the length left at the match is between 1 and 8 and the
\* unreachable!() arm is not taken; every front_chunk_mut and front_chunk
\* call of the fill, and the get_chunk calls at offsets 0 and 7 of the
\* 15-byte seed in Rng::new, satisfy offset <= len and N <= len - offset,
\* so nothing panics and the buffer keeps its length.
C14_FillNeverPanics ==
  /\ out.op = "new" =>
       /\ get_chunk_ok(out.arg, 0, 8)
       /\ get_chunk_ok(out.arg, 7, 8)
       /\ ~out.panic
  /\ AfterFill =>
       /\ ~out.r.panic
       /\ ~out.r.unreachable
       /\ Len(out.r.buf) = out.arg
       /\ out.arg >= 1 =>
            /\ out.r.tail \in 1..8
            /\ out.r.iters = (out.arg - 1) \div 16
            /\ out.r.pos + out.r.tail = out.arg

\* C14 witness: a fill of 16 bytes by a generator made by Rng::new: the
\* loop is not entered, eight bytes are written and eight are left at the
\* match
C14_Witness ==
  /\ out.op = "byte_array"
  /\ out.arg = 16
  /\ out.pre = new(Zeros(15))
  /\ out.r.iters = 0
  /\ out.r.pos = 8
  /\ out.r.tail = 8
  /\ out.r.words = 2

---------------------------------------------------------------------------
(* C15.                                                                    *)

\* The inverse of M modulo 2^128, and the hash undone: the multiplications
\* by M undone by multiplications by MInverse, the byte reversals by
\* themselves
MInverse ==
  Pack(W64(\h4c43, \h0a99, \hc6e3, \h5067), W64(\h75b3, \hc3bb, \hdd5d, \hc77c))
Unhash(x) ==
  WrappingMul(SwapBytes(WrappingMul(SwapBytes(WrappingMul(x, MInverse)),
                                    MInverse)),
              MInverse)

\* The seed read back from the value hashed
Unpacked(g) == Trunc(Packed(g), IF g.op = "new" THEN 15 ELSE 8)

\* C15: two different 15-byte seeds give different states under Rng::new,
\* two different u64 seeds give different states under Rng::from_u64, and a
\* state made by Rng::new is never one made by Rng::from_u64: the value
\* hashed holds the seed, with bit 120 set by Rng::new, and with bit 64 set
\* and nothing above it by Rng::from_u64; the hash is undone by Unhash, M
\* having an inverse modulo 2^128.
C15_SeedingIsInjective ==
  /\ Unpacked(out) = out.arg
  /\ out.op = "new" => Bit(Packed(out), 120) = 1
  /\ out.op = "from_u64" =>
       /\ Bit(Packed(out), 64) = 1
       /\ IsZero(Shr(Packed(out), 65))
  /\ WrappingMul(M, MInverse) = One(16)
  /\ Unhash(LastSeeded) = Packed(out)
  /\ pc = 1 /\ (out.first.op # out.op \/ out.first.arg # out.arg) =>
       state # child
  /\ pc = 1 /\ out.first.op = out.op /\ out.first.arg = out.arg =>
       state = child

\* C15 witness: Rng::new of the seed with byte 8 set to 1 and then
\* Rng::from_u64(0): the values hashed differ in bit 120 alone, and the
\* states differ
C15_Witness ==
  /\ pc = 1
  /\ out.first.op = "new"
  /\ out.first.arg = Seed15(8, 1)
  /\ out.op = "from_u64"
  /\ out.arg = Zeros(8)
  /\ Packed(out.first) = Or(Packed(out), Shl(One(16), 120))
  /\ state # child

====
